---- MODULE Spec2Model ----
(***************************************************************************)
(* Model of seer/__init__.py: LiveConfig, a dict that mirrors a yaml/json  *)
(* file on disk and reloads it when stale, and Seer, which picks a random  *)
(* server of a role out of a LiveConfig.                                   *)
(*                                                                         *)
(* The file system and the clock are the environment.  _reload is split    *)
(* at the points where the environment can act between two of its steps:   *)
(* after os.path.exists (line 64), and after open/clear (lines 67-73).     *)
(* Seer.__getitem__ is split between its two reads of self._roles[key]     *)
(* (lines 127 and 130).                                                    *)
(***************************************************************************)
EXTENDS Integers, Sequences, FiniteSets, TLC

VARIABLES
    now,            \* datetime.utcnow(), in seconds
    file,           \* the document at the source path, or Missing
    changed_at,     \* history: time of the last change of the file
    filename,       \* self._filename, reduced to its suffix
    reload_every,   \* self._reload_every
    use_timer,      \* self._use_timer
    seer,           \* TRUE when the LiveConfig is the _roles of a Seer
    last_load,      \* self._last_load
    contents,       \* the dict the LiveConfig is
    pc,             \* position of the (single) thread of control
    frame,          \* the call in progress
    stream,         \* the document behind the open stream of _reload
    ret,            \* outcome of the last completed call
    log,            \* what the last reload attempt logged
    last_good       \* history: mapping of the last parse that succeeded

vars == <<now, file, changed_at, filename, reload_every, use_timer, seer,
          last_load, contents, pc, frame, stream, ret, log, last_good>>

----------------------------------------------------------------------------
(* Bounds *)

\* the clock is looked at MaxTime times after construction
MaxTime == 3

----------------------------------------------------------------------------
(* Python values *)

EmptyMap == <<>>

None == [t |-> "none", d |-> EmptyMap, s |-> ""]

Str(v) == [t |-> "str", d |-> EmptyMap, s |-> v]

Dict(f) == [t |-> "dict", d |-> f, s |-> ""]

\* bool(v): None, '' and {} are false
Truthy(v) == \/ v.t = "dict" /\ DOMAIN v.d # {}
             \/ v.t = "str" /\ v.s # ""

\* dict.update(m): the keys of m are set, the others kept
dict_update(c, m) ==
    [k \in DOMAIN c \cup DOMAIN m |-> IF k \in DOMAIN m THEN m[k] ELSE c[k]]

\* dict.__setitem__(k, v)
dict_setitem(c, k, v) ==
    [j \in DOMAIN c \cup {k} |-> IF j = k THEN v ELSE c[j]]

\* removal of one key (dict.pop on a present key)
dict_remove(c, k) == [j \in DOMAIN c \ {k} |-> c[j]]

NoExc == "none"

Returns(v) == [exc |-> NoExc, val |-> v]

Raises(e) == [exc |-> e, val |-> None]

\* a clear() that removes nothing
dict_keep(c) == c

\* dict.clear()
dict_clear(c) == EmptyMap

\* dict.__getitem__(key)
dict_getitem(c, key) ==
    IF key \in DOMAIN c THEN Returns(c[key]) ELSE Raises("KeyError")

----------------------------------------------------------------------------
(* The source file *)

\* Seer.__init__: LiveConfig(role_file, reload_every=10, ...)
SEER_RELOAD_EVERY == 10

\* the reload_every arguments a LiveConfig is constructed with
ReloadEveryValues == {0, 1, 2}

RolesA ==
    [master |-> Dict([a |-> Dict([ip |-> Str("1.1.1.1")]),
                      b |-> Dict([ip |-> Str("2.2.2.2")])])]

RolesB ==
    [master |-> Dict([b |-> Dict([ip |-> Str("3.3.3.3"), name |-> Str("z")]),
                      c |-> None,
                      d |-> Dict(EmptyMap)]),
     empty  |-> Dict(EmptyMap)]

RolesC == [empty |-> Dict(EmptyMap), master |-> None]

Missing == [kind |-> "missing", val |-> EmptyMap]

\* a mapping in flow syntax: both parsers read it
JsonDoc(m) == [kind |-> "json", val |-> m]

\* a mapping in block syntax: yaml only
YamlDoc(m) == [kind |-> "yaml", val |-> m]

\* a document that parses to something that is not a mapping (empty, null)
ScalarDoc == [kind |-> "scalar", val |-> EmptyMap]

\* a document neither parser reads
BadDoc == [kind |-> "bad", val |-> EmptyMap]

Docs == {JsonDoc(RolesA), JsonDoc(RolesB), YamlDoc(RolesC), ScalarDoc, BadDoc}

Suffixes == {".yaml", ".json", ".txt"}

\* yaml.load(stream)
yaml_load(doc) ==
    CASE doc.kind \in {"json", "yaml"} -> Returns(Dict(doc.val))
      [] doc.kind = "scalar"           -> Returns(None)
      [] OTHER                         -> Raises("YAMLError")

\* json.load(stream)
json_load(doc) ==
    CASE doc.kind = "json"   -> Returns(Dict(doc.val))
      [] doc.kind = "scalar" -> Returns(None)
      [] OTHER               -> Raises("ValueError")

\* an existence check that is always true
exists_always(f) == TRUE

\* os.path.exists(self._filename)
exists(f) == f.kind # "missing"

----------------------------------------------------------------------------
(* LiveConfig *)

NoTime == -1

Keys == {"master", "nokey"}

RoleKeys == {"master", "empty", "nokey"}

Defaults == {None, Str("fallback")}

NoFrame == [op |-> "none", key |-> "", dflt |-> None, name |-> "",
            cmp |-> "none", late |-> FALSE, reloads |-> 0, old |-> EmptyMap]

Call(op, key, dflt) == [NoFrame EXCEPT !.op = op, !.key = key, !.dflt = dflt]

NoRet == [f |-> NoFrame, exc |-> NoExc, val |-> None]

\* a staleness check that already fires when the interval has just elapsed
StaleAtBoundary(t, loaded, every) == t >= loaded + every

\* a staleness check that fires one second late
StaleLate(t, loaded, every) == t > loaded + every + 1

\* _reload_if_needed: datetime.utcnow() > self._last_load + delta
\* a staleness test that never finds the dict stale
StaleNever(t, loaded, every) == FALSE

Stale(t, loaded, every) == t > loaded + every

\* history: where the time of a staleness check lies relative to
\* last_load + reload_every
Cmp(t, loaded, every) ==
    IF t < loaded + every THEN "before"
    ELSE IF t = loaded + every THEN "at" ELSE "after"

\* a dispatch that falls back to yaml for an unknown suffix
parser_default_yaml(fn) == IF fn = ".json" THEN "json" ELSE "yaml"

\* _reload: the parser the suffix of the file name selects
parser_for(fn) ==
    IF fn = ".yaml" THEN "yaml" ELSE IF fn = ".json" THEN "json" ELSE "none"

\* _reload lines 71 and 74: the argument of self.update
load(fn, doc) == IF parser_for(fn) = "yaml" THEN yaml_load(doc) ELSE json_load(doc)

\* a get without its except KeyError clause
get_uncaught(c, key, dflt) == dict_getitem(c, key)

\* LiveConfig.get on the dict c, after _reload_if_needed
LiveConfig_get(c, key, dflt) ==
    LET r == dict_getitem(c, key)
    IN  IF r.exc = "KeyError" THEN Returns(dflt) ELSE r

----------------------------------------------------------------------------
(* Seer *)

\* random.choice(keys): any element, IndexError on an empty list
random_choice(S) ==
    IF S = {} THEN {Raises("IndexError")} ELSE {Returns(Str(n)) : n \in S}

\* a lookup that lets the IndexError of random.choice through
translate_nothing(r) == r

\* except IndexError: raise KeyError
Seer_translate(r) == IF r.exc = "IndexError" THEN Raises("KeyError") ELSE r

\* Seer.__getitem__ lines 126-129 on the dict c: the possible outcomes
Seer_select(c, key) ==
    LET r == dict_getitem(c, key)
    IN  IF r.exc # NoExc THEN {r}
        ELSE IF r.val.t # "dict" THEN {Raises("AttributeError")}
        ELSE {Seer_translate(x) : x \in random_choice(DOMAIN r.val.d)}

\* a result that keeps the stored data as it is, without data['name'] = name
result_without_name(data, name) ==
    IF ~Truthy(data) THEN Returns(Dict(EmptyMap))
    ELSE IF data.t = "dict" THEN Returns(Dict(data.d))
         ELSE Raises("ValueError")

\* Seer.__getitem__ lines 131-136: the result built from the stored data
Seer_result(data, name) ==
    IF ~Truthy(data) THEN Returns(Dict([name |-> Str(name)]))
    ELSE IF data.t = "dict"
         THEN Returns(Dict(dict_setitem(data.d, "name", Str(name))))
         ELSE Raises("ValueError")

\* Seer.__getitem__ lines 130-136 on the dict c
Seer_build(c, key, name) ==
    LET r == dict_getitem(c, key)
    IN  IF r.exc # NoExc THEN r
        ELSE IF r.val.t # "dict" THEN Raises("TypeError")
        ELSE LET s == dict_getitem(r.val.d, name)
             IN  IF s.exc # NoExc THEN s ELSE Seer_result(s.val, name)

\* a lookup without the copy of line 132: data['name'] = name writes into
\* the stored dict
Seer_stored_aliased(c, key, name) ==
    IF /\ key \in DOMAIN c
       /\ c[key].t = "dict"
       /\ name \in DOMAIN c[key].d
       /\ Truthy(c[key].d[name])
       /\ c[key].d[name].t = "dict"
    THEN [c EXCEPT ![key] =
            Dict([c[key].d EXCEPT ![name] =
                    Dict(dict_setitem(c[key].d[name].d, "name", Str(name)))])]
    ELSE c

\* Seer.__getitem__ lines 130-136: the dict c as the lookup leaves it; data
\* is a copy (dict(data)) or a new dict, so the assignment of line 135 does
\* not reach c
Seer_stored(c, key, name) == c

----------------------------------------------------------------------------
(* Completion of a call *)

Done(fr, r) ==
    /\ pc' = "idle"
    /\ frame' = NoFrame
    /\ ret' = [f |-> fr, exc |-> r.exc, val |-> r.val]

\* the rest of the call fr once its reload (if any) is over: c is the dict,
\* exc the exception that left _reload
Finish(fr, c, exc) ==
    IF exc # NoExc
    THEN IF fr.op = "init"
         THEN /\ pc' = "new"
              /\ frame' = NoFrame
              /\ ret' = [f |-> fr, exc |-> exc, val |-> None]
         ELSE Done(fr, Raises(exc))
    ELSE CASE fr.op \in {"init", "timer"} -> Done(fr, Returns(None))
           [] fr.op = "getitem" -> Done(fr, dict_getitem(c, fr.key))
           [] fr.op = "get" -> Done(fr, LiveConfig_get(c, fr.key, fr.dflt))
           [] fr.op = "lookup" /\ fr.name = "" ->
                \E r \in Seer_select(c, fr.key) :
                    IF r.exc # NoExc
                    THEN Done(fr, r)
                    ELSE /\ pc' = "chosen"
                         /\ frame' = [fr EXCEPT !.name = r.val.s]
                         /\ ret' = ret
           [] fr.op = "lookup" /\ fr.name # "" ->
                Done(fr, Seer_build(c, fr.key, fr.name))

\* the dict c as the call fr leaves it once its reload (if any) is over
After(fr, c) ==
    IF fr.op = "lookup" /\ fr.name # "" THEN Seer_stored(c, fr.key, fr.name)
                                        ELSE c

\* a _reload that takes the time of the attempt only once the file is found
ReloadStart_stamps_found(fr) ==
    LET fr1 == [fr EXCEPT !.reloads = @ + 1]
    IN  /\ last_load' = IF exists(file) THEN now ELSE last_load
        /\ UNCHANGED <<contents, stream, last_good>>
        /\ IF exists(file)
           THEN /\ pc' = "opening"
                /\ frame' = fr1
                /\ log' = "none"
                /\ ret' = ret
           ELSE /\ log' = "warning"
                /\ Finish(fr1, contents, NoExc)

\* _reload lines 63-66
ReloadStart(fr) ==
    LET fr1 == [fr EXCEPT !.reloads = @ + 1]
    IN  /\ last_load' = now
        /\ UNCHANGED <<stream, last_good>>
        /\ IF exists(file)
           THEN /\ pc' = "opening"
                /\ frame' = fr1
                /\ log' = "none"
                /\ ret' = ret
                /\ contents' = contents
           ELSE /\ log' = "warning"
                /\ Finish(fr1, contents, NoExc)
                /\ contents' = After(fr1, contents)

\* a read whose staleness check forgets the timer
Read_forgets_timer(fr0) ==
    LET fr == [fr0 EXCEPT !.cmp = Cmp(now, last_load, reload_every),
                          !.late = now > changed_at + reload_every]
    IN  IF Stale(now, last_load, reload_every)
        THEN ReloadStart(fr)
        ELSE /\ Finish(fr, contents, NoExc)
             /\ UNCHANGED <<last_load, contents, stream, log, last_good>>

\* a read of the LiveConfig: _reload_if_needed, then the rest of the call
Read(fr0) ==
    LET fr == [fr0 EXCEPT !.cmp = Cmp(now, last_load, reload_every),
                          !.late = now > changed_at + reload_every]
    IN  IF ~use_timer /\ Stale(now, last_load, reload_every)
        THEN ReloadStart(fr)
        ELSE /\ Finish(fr, contents, NoExc)
             /\ contents' = After(fr, contents)
             /\ UNCHANGED <<last_load, stream, log, last_good>>

Config == <<filename, reload_every, use_timer, seer>>

World == <<now, file, changed_at>>

\* the message of the KeyError that __delitem__ and setdefault raise
ReadOnly == "KeyError: LiveConfig is read-only!"

Values == {None}

----------------------------------------------------------------------------
(* Initial state: before LiveConfig.__init__ / Seer.__init__ runs *)

Init ==
    /\ now = 0
    /\ file \in Docs \cup {Missing}
    /\ changed_at = 0
    /\ filename \in Suffixes
    /\ use_timer \in BOOLEAN
    /\ seer \in BOOLEAN
    /\ reload_every \in IF seer THEN {SEER_RELOAD_EVERY} ELSE ReloadEveryValues
    /\ last_load = NoTime
    /\ contents = EmptyMap
    /\ pc = "new"
    /\ frame = NoFrame
    /\ stream = Missing
    /\ ret = NoRet
    /\ log = "none"
    /\ last_good = EmptyMap

----------------------------------------------------------------------------
(* LiveConfig.__init__ and _reload *)

\* a constructor that leaves the first load to the first read or timer tick
Construct_lazy ==
    /\ pc = "new"
    /\ Done(Call("init", "", None), Returns(None))
    /\ UNCHANGED <<World, Config, last_load, contents, stream, log,
                   last_good>>

\* LiveConfig.__init__ (lines 49-59): the first _reload
Construct ==
    /\ pc = "new"
    /\ ReloadStart(Call("init", "", None))
    /\ UNCHANGED <<World, Config>>

\* _reload lines 67-76: open, then clear or the unsupported-format error
ReloadOpen ==
    /\ pc = "opening"
    /\ UNCHANGED <<World, Config, last_load, last_good>>
    /\ IF ~exists(file)
       THEN /\ Finish(frame, contents, "IOError")
            /\ UNCHANGED <<contents, stream, log>>
       ELSE IF parser_for(filename) = "none"
       THEN /\ log' = "error"
            /\ Finish(frame, contents, NoExc)
            /\ contents' = After(frame, contents)
            /\ UNCHANGED stream
       ELSE /\ contents' = dict_clear(contents)
            /\ stream' = file
            /\ pc' = "loading"
            /\ frame' = [frame EXCEPT !.old = contents]
            /\ UNCHANGED <<ret, log>>

\* _reload lines 71/74 and 77-78: parse, update, or log the error
ReloadLoad ==
    /\ pc = "loading"
    /\ UNCHANGED <<World, Config, last_load>>
    /\ LET r  == load(filename, stream)
           ok == r.exc = NoExc /\ r.val.t = "dict"
           c  == IF ok THEN dict_update(contents, r.val.d) ELSE contents
       IN  /\ contents' = After(frame, c)
           /\ last_good' = IF ok THEN r.val.d ELSE last_good
           /\ log' = IF ok THEN "none" ELSE "error"
           /\ stream' = Missing
           /\ Finish([frame EXCEPT !.old = EmptyMap], c, NoExc)

\* the tornado PeriodicCallback calls self._reload
TimerFire ==
    /\ pc = "idle"
    /\ use_timer
    /\ ReloadStart(Call("timer", "", None))
    /\ UNCHANGED <<World, Config>>

----------------------------------------------------------------------------
(* Calls of the application *)

\* LiveConfig.__getitem__(key)
GetItem(key) ==
    /\ pc = "idle"
    /\ ~seer
    /\ Read(Call("getitem", key, None))
    /\ UNCHANGED <<World, Config>>

\* LiveConfig.get(key, default)
Get(key, dflt) ==
    /\ pc = "idle"
    /\ ~seer
    /\ Read(Call("get", key, dflt))
    /\ UNCHANGED <<World, Config>>

\* LiveConfig.__delitem__(key)
DelItem(key) ==
    /\ pc = "idle"
    /\ ~seer
    /\ ret' = [f |-> Call("delitem", key, None), exc |-> ReadOnly, val |-> None]
    /\ UNCHANGED <<World, Config, last_load, contents, pc, frame, stream,
                   log, last_good>>

\* LiveConfig.setdefault(key, val)
SetDefault(key, val) ==
    /\ pc = "idle"
    /\ ~seer
    /\ ret' = [f |-> Call("setdefault", key, val), exc |-> ReadOnly,
               val |-> None]
    /\ UNCHANGED <<World, Config, last_load, contents, pc, frame, stream,
                   log, last_good>>

\* Seer.__getitem__(key) up to the choice of the server name
Lookup(key) ==
    /\ pc = "idle"
    /\ seer
    /\ Read(Call("lookup", key, None))
    /\ UNCHANGED <<World, Config>>

\* Seer.__getitem__(key) from the second self._roles[key] on
LookupFetch ==
    /\ pc = "chosen"
    /\ Read(frame)
    /\ UNCHANGED <<World, Config>>

\* keys(), values(), items() and iteration, inherited from dict
BulkOps == {"keys", "values", "items", "iter"}

\* what a bulk accessor gives of the dict c: its keys, or its keys with
\* their values (values() gives the values of these pairs)
dict_view(op, c) ==
    IF op \in {"keys", "iter"} THEN Dict([k \in DOMAIN c |-> None])
                               ELSE Dict(c)

\* a bulk accessor wrapped to call _reload_if_needed first (the reload is
\* taken as one step)
Bulk_refreshing(op) ==
    LET go == ~use_timer /\ Stale(now, last_load, reload_every)
        c  == IF go /\ exists(file) /\ load(filename, file).exc = NoExc
                    /\ load(filename, file).val.t = "dict"
              THEN load(filename, file).val.d ELSE contents
    IN  /\ pc = "idle"
        /\ ~seer
        /\ contents' = c
        /\ last_load' = IF go THEN now ELSE last_load
        /\ ret' = [f |-> Call(op, "", None), exc |-> NoExc,
                   val |-> dict_view(op, c)]
        /\ UNCHANGED <<World, Config, pc, frame, stream, log, last_good>>

\* dict.keys / values / items / __iter__ on the LiveConfig
Bulk(op) ==
    /\ pc = "idle"
    /\ ~seer
    /\ ret' = [f |-> Call(op, "", None), exc |-> NoExc,
               val |-> dict_view(op, contents)]
    /\ UNCHANGED <<World, Config, last_load, contents, pc, frame, stream,
                   log, last_good>>

\* another thread reads the dict through a bulk accessor while _reload is
\* between two of its steps
PeerRead(op) ==
    /\ pc \in {"opening", "loading"}
    /\ ~seer
    /\ ret' = [f |-> Call(op, "", None), exc |-> NoExc,
               val |-> dict_view(op, contents)]
    /\ UNCHANGED <<World, Config, last_load, contents, pc, frame, stream,
                   log, last_good>>

----------------------------------------------------------------------------
(* The environment *)

\* seconds between two looks at the clock: the reload interval of a Seer is
\* ten times that of the LiveConfigs constructed here
Quantum == IF seer THEN 5 ELSE 1

\* time passes between two calls, or between the two reads of a lookup
Tick ==
    /\ pc \in {"idle", "chosen"}
    /\ now < MaxTime * Quantum
    /\ now' = now + Quantum
    /\ UNCHANGED <<file, changed_at, Config, last_load, contents, pc, frame,
                   stream, ret, log, last_good>>

\* the file changes: the calls under way or over were made before the change
Changed(doc) ==
    /\ file' = doc
    /\ changed_at' = now
    /\ frame' = [frame EXCEPT !.late = FALSE]
    /\ ret' = [ret EXCEPT !.f.late = FALSE]
    /\ UNCHANGED <<now, Config, last_load, contents, pc, stream, log,
                   last_good>>

\* an external actor replaces the file while no reload is under way
FileWrite(doc) ==
    /\ pc \in {"idle", "chosen"}
    /\ doc # file
    /\ Changed(doc)

\* an external actor removes the file while no reload is under way
FileRemove ==
    /\ pc \in {"idle", "chosen"}
    /\ exists(file)
    /\ Changed(Missing)

\* an external actor replaces the file between two steps of _reload
RaceWrite(doc) ==
    /\ pc \in {"opening", "loading"}
    /\ doc # file
    /\ Changed(doc)

\* an external actor removes the file between two steps of _reload
RaceRemove ==
    /\ pc \in {"opening", "loading"}
    /\ exists(file)
    /\ Changed(Missing)

----------------------------------------------------------------------------
(* The methods LiveConfig inherits from dict (class LiveConfig(dict)) and  *)
(* does not override                                                       *)

Mutated(fr, c, r) ==
    /\ pc = "idle"
    /\ ~seer
    /\ contents' = c
    /\ ret' = [f |-> fr, exc |-> r.exc, val |-> r.val]
    /\ UNCHANGED <<World, Config, last_load, pc, frame, stream, log,
                   last_good>>

\* dict.__setitem__(key, val)
SetItem(key, val) ==
    Mutated(Call("setitem", key, val), dict_setitem(contents, key, val),
            Returns(None))

\* dict.pop(key)
Pop(key) ==
    Mutated(Call("pop", key, None),
            IF key \in DOMAIN contents THEN dict_remove(contents, key)
                                       ELSE contents,
            dict_getitem(contents, key))

\* dict.clear()
Clear == Mutated(Call("clear", "", None), dict_clear(contents), Returns(None))

\* dict.update(m)
Update(m) ==
    Mutated(Call("update", "", Dict(m)), dict_update(contents, m),
            Returns(None))

----------------------------------------------------------------------------

\* the documented use: reads, the two overridden writes, the timer, and an
\* environment that leaves the file alone while a reload is under way
Next ==
    \/ Construct
    \/ ReloadOpen
    \/ ReloadLoad
    \/ TimerFire
    \/ \E key \in Keys : GetItem(key)
    \/ \E key \in Keys, dflt \in Defaults : Get(key, dflt)
    \/ \E key \in Keys : DelItem(key)
    \/ \E key \in Keys, val \in Values : SetDefault(key, val)
    \/ \E key \in RoleKeys : Lookup(key)
    \/ LookupFetch
    \/ Tick
    \/ \E doc \in Docs : FileWrite(doc)
    \/ FileRemove

\* the same with an environment that acts between the steps of a reload
NextRace ==
    \/ Next
    \/ \E doc \in Docs : RaceWrite(doc)
    \/ RaceRemove

\* a LiveConfig used through every method it has, the inherited writes of
\* dict included
NextDict ==
    \/ Construct
    \/ ReloadOpen
    \/ ReloadLoad
    \/ \E key \in Keys : GetItem(key)
    \/ \E key \in Keys, dflt \in Defaults : Get(key, dflt)
    \/ \E key \in Keys : DelItem(key)
    \/ \E key \in Keys, val \in Values : SetDefault(key, val)
    \/ \E key \in {"nokey"}, val \in {None} : SetItem(key, val)
    \/ \E key \in Keys : Pop(key)
    \/ Clear
    \/ \E m \in {RolesC} : Update(m)
    \/ Tick
    \/ \E doc \in Docs : FileWrite(doc)
    \/ FileRemove

\* a LiveConfig read key by key and through its bulk accessors
NextBulk ==
    \/ Construct
    \/ ReloadOpen
    \/ ReloadLoad
    \/ TimerFire
    \/ \E key \in Keys : GetItem(key)
    \/ \E key \in Keys, dflt \in Defaults : Get(key, dflt)
    \/ \E op \in BulkOps : Bulk(op)
    \/ Tick
    \/ \E doc \in Docs : FileWrite(doc)
    \/ FileRemove

\* a LiveConfig used directly
InitBulk == Init /\ ~seer

\* a LiveConfig shared with a second thread that reads it
NextThreads ==
    \/ Construct
    \/ ReloadOpen
    \/ ReloadLoad
    \/ TimerFire
    \/ \E key \in Keys : GetItem(key)
    \/ \E key \in Keys, dflt \in Defaults : Get(key, dflt)
    \/ \E op \in BulkOps : PeerRead(op)
    \/ Tick
    \/ \E doc \in Docs : FileWrite(doc)
    \/ FileRemove

\* a LiveConfig in pull mode
InitDict == Init /\ ~seer /\ ~use_timer /\ reload_every = 1

Spec == Init /\ [][Next]_vars

SpecRace == Init /\ [][NextRace]_vars

SpecDict == InitDict /\ [][NextDict]_vars

SpecBulk == InitBulk /\ [][NextBulk]_vars

SpecThreads == InitBulk /\ [][NextThreads]_vars

TypeOK ==
    /\ pc \in {"new", "idle", "opening", "loading", "chosen"}
    /\ now \in 0..(MaxTime * Quantum)

----------------------------------------------------------------------------
(* Properties *)

ReadOps == {"getitem", "get"}

WriteOps == {"delitem", "setdefault", "setitem", "pop", "clear", "update"}

\* the document parses, with the parser of the file name, to a mapping
ValidMap(doc) ==
    /\ doc.kind # "missing"
    /\ filename \in {".yaml", ".json"}
    /\ doc.kind = "json" \/ (doc.kind = "yaml" /\ filename = ".yaml")

\* a step that begins a reload attempt (and ends it, when the file is missing)
AttemptStarts ==
    /\ pc \in {"new", "idle", "chosen"}
    /\ UNCHANGED World
    /\ \/ pc' = "opening"
       \/ /\ pc' = "idle"
          /\ ret'.f.reloads > (IF pc = "chosen" THEN frame.reloads ELSE 0)
       \/ /\ pc = "idle"
          /\ pc' = "chosen"
          /\ frame'.reloads = 1

\* the attributes of a stored server value, its name attribute left out
AttrsOf(v) ==
    IF v.t = "dict" THEN [k \in DOMAIN v.d \ {"name"} |-> v.d[k]]
                    ELSE EmptyMap

\* C1: between two calls, contents is the mapping of the most recent
\* successful parse of the source file, or empty if no parse has succeeded
\* yet; a reload of an unparsable file leaves contents as it was.
C1_SnapshotKept == pc = "idle" => contents = last_good

\* C2: every mutating operation the application calls on a LiveConfig fails
\* with the read-only error.
C2_AlwaysReadOnly == ret.f.op \in WriteOps => ret.exc = ReadOnly

\* C3 as stated: in pull mode a read made at a time t >= T0 + I, t = T0 + I
\* included, performs exactly one reload, and a read at t < T0 + I none.
C3_Original ==
    (~use_timer /\ ret.f.op \in ReadOps) =>
        /\ ret.f.cmp \in {"at", "after"} => ret.f.reloads = 1
        /\ ret.f.cmp = "before" => ret.f.reloads = 0

\* C3 as amended: in pull mode a read made at a time t > T0 + I performs
\* exactly one reload, and a read made at t <= T0 + I, t = T0 + I included,
\* performs none.
C3_Amended ==
    (~use_timer /\ ret.f.op \in ReadOps) =>
        /\ ret.f.cmp = "after" => ret.f.reloads = 1
        /\ ret.f.cmp \in {"before", "at"} => ret.f.reloads = 0

C3_Witness ==
    /\ ~use_timer
    /\ reload_every > 0
    /\ ret.f.op \in ReadOps
    /\ ret.f.cmp = "after"
    /\ ret.f.reloads = 1
    /\ ret.exc = NoExc

\* C4: in pull mode, a read made later than reload_every after the last
\* change of the file, which left it a valid mapping M, answers from M: M's
\* value for the key, or the default (get) / KeyError (indexed read) when M
\* lacks the key.
C4_Fresh ==
    (~use_timer /\ ret.f.op \in ReadOps /\ ret.f.late /\ ValidMap(file)) =>
        IF ret.f.key \in DOMAIN file.val
        THEN ret.exc = NoExc /\ ret.val = file.val[ret.f.key]
        ELSE IF ret.f.op = "get"
             THEN ret.exc = NoExc /\ ret.val = ret.f.dflt
             ELSE ret.exc = "KeyError"

C4_Witness ==
    /\ ~use_timer
    /\ ret.f.op \in ReadOps
    /\ ret.f.late
    /\ ValidMap(file)
    /\ changed_at > 0
    /\ last_good = RolesB
    /\ file.val = RolesB
    /\ ret.f.key = "master"
    /\ ret.val = RolesB["master"]

\* C5: no reload attempt and no read propagates an error caused by the
\* source file, also when the file is removed or rewritten between the
\* existence check and the open: construction and timer reloads complete
\* normally and the only error of a read is KeyError.
C5_Contained ==
    /\ ret.f.op \in {"init", "timer"} => ret.exc = NoExc
    /\ ret.f.op \in ReadOps => ret.exc \in {NoExc, "KeyError"}

\* C6: a lookup that returns gives a dict whose name is a server name of
\* the role in contents and whose other keys are exactly the stored
\* attributes of that server (none when the stored value is empty or None);
\* the names the selection can yield are all the server names of the role.
C6_Result ==
    /\ (pc = "idle" /\ ret.f.op = "lookup" /\ ret.exc = NoExc) =>
          /\ ret.val.t = "dict"
          /\ "name" \in DOMAIN ret.val.d
          /\ ret.val.d["name"].t = "str"
          /\ ret.f.key \in DOMAIN contents
          /\ contents[ret.f.key].t = "dict"
          /\ ret.val.d["name"].s \in DOMAIN contents[ret.f.key].d
          /\ [k \in DOMAIN ret.val.d \ {"name"} |-> ret.val.d[k]]
               = AttrsOf(contents[ret.f.key].d[ret.val.d["name"].s])
    /\ \A key \in RoleKeys :
          (/\ pc = "idle"
           /\ key \in DOMAIN contents
           /\ contents[key].t = "dict"
           /\ DOMAIN contents[key].d # {}) =>
              {r.val.s : r \in Seer_select(contents, key)}
                 = DOMAIN contents[key].d

C6_Witness ==
    /\ pc = "idle"
    /\ ret.f.op = "lookup"
    /\ ret.exc = NoExc
    /\ contents = RolesB
    /\ ret.val = Dict([ip |-> Str("3.3.3.3"), name |-> Str("b")])

\* C7: a lookup of a role that is absent from contents, or present with no
\* server, raises KeyError: it returns nothing and raises nothing else.
C7_NotFound ==
    (/\ pc = "idle"
     /\ ret.f.op = "lookup"
     /\ \/ ret.f.key \notin DOMAIN contents
        \/ /\ contents[ret.f.key].t = "dict"
           /\ DOMAIN contents[ret.f.key].d = {}) =>
        ret.exc = "KeyError"

C7_Witness ==
    /\ pc = "idle"
    /\ ret.f.op = "lookup"
    /\ ret.f.key = "empty"
    /\ "empty" \in DOMAIN contents
    /\ DOMAIN contents["empty"].d = {}
    /\ ret.f.name = ""
    /\ ret.exc = "KeyError"

\* C8: get never raises: it returns the stored value when the key is in
\* contents and the caller's default when it is not; an indexed read returns
\* the stored value when the key is there and raises KeyError exactly when
\* it is absent.
C8_GetDefault ==
    pc = "idle" =>
        /\ ret.f.op = "get" =>
              /\ ret.exc = NoExc
              /\ ret.val = IF ret.f.key \in DOMAIN contents
                           THEN contents[ret.f.key] ELSE ret.f.dflt
        /\ ret.f.op = "getitem" =>
              IF ret.f.key \in DOMAIN contents
              THEN ret.exc = NoExc /\ ret.val = contents[ret.f.key]
              ELSE ret.exc = "KeyError"

C8_Witness ==
    /\ pc = "idle"
    /\ ret.f.op = "get"
    /\ ret.f.key \notin DOMAIN contents
    /\ contents # EmptyMap
    /\ ret.f.reloads = 1
    /\ ret.f.dflt = Str("fallback")
    /\ ret.val = Str("fallback")

\* C9: a reload attempt made while the source file does not exist ends at
\* once, leaves contents as it was and raises nothing; a construction
\* against a missing file gives an empty mapping.
C9_MissingFile ==
    [][(AttemptStarts /\ file.kind = "missing") =>
          /\ contents' = contents
          /\ pc' \in {"idle", "chosen"}
          /\ pc' = "idle" => ret'.exc \notin {"IOError", "YAMLError",
                                              "ValueError"}
          /\ (pc' = "idle" /\ ret'.f.op \in {"init", "timer"}) =>
                ret'.exc = NoExc
          /\ pc = "new" => contents' = EmptyMap]_vars

C9_Witness ==
    /\ pc = "idle"
    /\ file.kind = "missing"
    /\ log = "warning"
    /\ ret.f.reloads = 1
    /\ ret.exc = NoExc
    /\ contents = RolesA

\* C10: with a file name that ends in neither .yaml nor .json, a reload
\* attempt that opens the file logs an error, leaves contents unchanged and
\* raises nothing, and contents is empty in every state.
C10_Unsupported ==
    /\ [](filename = ".txt" => contents = EmptyMap)
    /\ [][(filename = ".txt" /\ pc = "opening") =>
             /\ log' = "error"
             /\ contents' = contents
             /\ pc' \in {"idle", "chosen"}
             /\ pc' = "idle" => ret'.exc \in {NoExc, "KeyError"}]_vars

C10_Witness ==
    /\ filename = ".txt"
    /\ pc = "idle"
    /\ file.kind = "json"
    /\ log = "error"
    /\ ret.f.op = "get"
    /\ ret.f.reloads = 1
    /\ ret.exc = NoExc

\* C11: in timer mode no get, indexed read or lookup triggers a reload,
\* however stale the map is: after construction, last_load and contents
\* change only in a reload the timer started, and each call of the timer
\* makes one reload attempt whatever the age of the data.
C11_TimerOnly ==
    /\ [](use_timer =>
            /\ ret.f.op \in ReadOps \cup {"lookup"} => ret.f.reloads = 0
            /\ frame.op \in ReadOps \cup {"lookup"} =>
                  frame.reloads = 0 /\ pc = "chosen"
            /\ ret.f.op = "timer" => ret.f.reloads = 1
            /\ frame.op = "timer" => frame.reloads = 1)
    /\ [][(use_timer /\ pc # "new" /\ frame.op # "init"
             /\ (last_load' # last_load \/ contents' # contents)) =>
                \/ frame.op = "timer"
                \/ frame'.op = "timer"
                \/ pc' = "idle" /\ ret'.f.op = "timer"]_vars
    /\ [][(/\ use_timer
           /\ pc = "idle"
           /\ \/ frame'.op = "timer"
              \/ ret'.f.op = "timer" /\ ret' # ret) => last_load' = now]_vars

C11_Witness ==
    /\ use_timer
    /\ pc = "idle"
    /\ ret.f.op = "get"
    /\ ret.f.cmp = "after"
    /\ ret.f.reloads = 0
    /\ ValidMap(file)
    /\ file.val # contents

\* C12: keys(), values(), items() and iteration never reload, also in pull
\* mode on a stale map: they leave contents and last_load as they are and
\* give the snapshot of the last reload.
C12_BulkNoReload ==
    /\ [](ret.f.op \in BulkOps => ret.f.reloads = 0 /\ ret.exc = NoExc)
    /\ [][(/\ pc = "idle"
           /\ pc' = "idle"
           /\ UNCHANGED World
           /\ ret'.f.op \in BulkOps) =>
              /\ contents' = contents
              /\ last_load' = last_load
              /\ ret'.val = dict_view(ret'.f.op, contents)]_vars

C12_Witness ==
    /\ ~use_timer
    /\ pc = "idle"
    /\ ret.f.op = "items"
    /\ now > last_load + reload_every
    /\ ValidMap(file)
    /\ file.val # contents
    /\ contents = RolesA
    /\ ret.val = Dict(RolesA)

\* C13: every reload attempt first sets last_load to the time of the
\* attempt, whether the file is then missing, unparsable or loaded; last_load
\* never decreases; and in pull mode no call made at a time
\* t <= last_load + reload_every starts another attempt, a failed attempt
\* and a file repaired since included.
C13_StampFirst ==
    /\ [](pc \in {"opening", "loading"} => last_load = now)
    /\ [][AttemptStarts => last_load' = now]_vars
    /\ [][last_load' >= last_load]_vars
    /\ [][(/\ ~use_timer
           /\ pc \in {"idle", "chosen"}
           /\ now <= last_load + reload_every
           /\ UNCHANGED World) =>
              /\ last_load' = last_load
              /\ pc' \in {"idle", "chosen"}
              /\ log' = log]_vars

C13_Witness ==
    /\ ~use_timer
    /\ pc = "idle"
    /\ reload_every > 0
    /\ log \in {"warning", "error"}
    /\ ValidMap(file)
    /\ last_load <= changed_at
    /\ changed_at < now
    /\ now = last_load + reload_every
    /\ ret.f.op \in ReadOps
    /\ ret.f.cmp = "at"
    /\ ret.f.reloads = 0
    /\ contents = EmptyMap

\* the answer of the read fr from the dict c
C14_Answer(fr, c) ==
    IF fr.key \in DOMAIN c THEN Returns(c[fr.key])
    ELSE IF fr.op = "get" THEN Returns(fr.dflt) ELSE Raises("KeyError")

\* a read (get, indexed read, or one of the two reads of a lookup) is made
C14_ReadStep ==
    /\ ~use_timer
    /\ pc \in {"idle", "chosen"}
    /\ UNCHANGED World
    /\ pc' = "idle" => ret'.f.op \in ReadOps \cup {"lookup"}
    /\ pc' # "idle" => frame'.op \in ReadOps \cup {"lookup"}

\* C14: a pull-mode read starts a reload exactly when now is strictly
\* greater than last_load + reload_every; a read with
\* now <= last_load + reload_every leaves contents and last_load as they are
\* and answers from the snapshot it finds, whatever the file has become.
C14_ReloadIffStale ==
    [][C14_ReadStep =>
        /\ AttemptStarts <=> now > last_load + reload_every
        /\ now <= last_load + reload_every =>
              /\ contents' = contents
              /\ last_load' = last_load
              /\ (pc' = "idle" /\ ret'.f.op \in ReadOps) =>
                    /\ ret'.exc = C14_Answer(ret'.f, contents).exc
                    /\ ret'.val = C14_Answer(ret'.f, contents).val]_vars

C14_Witness ==
    /\ ~use_timer
    /\ pc = "idle"
    /\ reload_every > 0
    /\ ValidMap(file)
    /\ file.val = RolesB
    /\ contents = RolesA
    /\ last_load <= changed_at
    /\ changed_at < now
    /\ now = last_load + reload_every
    /\ ret.f.op = "getitem"
    /\ ret.f.key = "master"
    /\ ret.f.cmp = "at"
    /\ ret.f.reloads = 0
    /\ ret.val = RolesA["master"]

\* C15: a reload whose parse succeeds leaves contents equal to the parsed
\* mapping: every key of the file is there with the file's value, and no key
\* of the old contents that the file lacks remains.
C15_ExactlyParsed ==
    /\ [][(pc = "loading" /\ ValidMap(stream)) =>
              /\ contents' = stream.val
              /\ log' = "none"]_vars
    /\ []((pc \in {"idle", "chosen"} /\ last_load # NoTime /\ log = "none")
              => contents = last_good)

C15_Witness ==
    /\ seer
    /\ ~use_timer
    /\ pc = "chosen"
    /\ frame.reloads = 1
    /\ ret.f.op = "lookup"
    /\ ret.f.key = "master"
    /\ ret.exc = NoExc
    /\ ret.val.d["name"] = Str("d")
    /\ "empty" \notin DOMAIN contents
    /\ contents = RolesA
    /\ log = "none"

\* a second thread reads the whole dict while a reload is under way
C16_PeerStep ==
    /\ pc \in {"opening", "loading"}
    /\ pc' = pc
    /\ UNCHANGED World
    /\ ret'.f.op \in BulkOps

\* the mapping the reload under way found in the dict
C16_Previous == IF pc = "loading" THEN frame.old ELSE contents

\* the mappings the reload under way is about to install: the parsed file,
\* if it parses to a mapping
C16_New ==
    LET doc == IF pc = "loading" THEN stream ELSE file
    IN  IF ValidMap(doc) THEN {doc.val} ELSE {}

\* C16: a reader interleaved with a reload on another thread sees
\* the complete previous mapping or the complete newly parsed one, never an
\* empty or partly filled dict.
C16_Original ==
    [][C16_PeerStep =>
        \E m \in {C16_Previous} \cup C16_New :
            ret'.val = dict_view(ret'.f.op, m)]_vars

\* C17: a lookup in pull mode reads the names and the chosen server's data
\* from one snapshot: no reload starts between the choice of the name and
\* the read of its data, whatever the clock and the file do meanwhile, so the
\* lookup never raises KeyError for the server it chose and never returns a
\* name with the attributes another snapshot has for it.
C17_OneSnapshot ==
    /\ [][(~use_timer /\ pc = "chosen") =>
              /\ ~AttemptStarts
              /\ contents' = contents
              /\ last_load' = last_load]_vars
    /\ []((~use_timer /\ ret.f.op = "lookup" /\ ret.f.name # "") =>
              ret.exc = NoExc)

\* C18: a lookup changes the stored data only through a reload: its result
\* is a copy, so the stored attributes of the chosen server do not gain the
\* name the result carries, and lookups with no reload in between find the
\* same stored data.
C18_LookupPure ==
    /\ [](seer => contents \in {EmptyMap} \cup {doc.val : doc \in Docs})
    /\ [][(seer /\ pc \in {"idle", "chosen"}) => contents' = contents]_vars
    /\ [][(seer /\ pc = "opening") => contents' \in {contents, EmptyMap}]_vars
    /\ [][(seer /\ pc = "loading") =>
              contents' \in {contents, stream.val}]_vars

C18_Witness ==
    /\ seer
    /\ pc = "idle"
    /\ ret.f.op = "lookup"
    /\ ret.f.name = "b"
    /\ ret.f.reloads = 0
    /\ ret.exc = NoExc
    /\ ret.val.d["name"] = Str("b")
    /\ contents = RolesB
    /\ contents["master"].d["b"].d["name"] = Str("z")

\* C19: the constructor makes exactly one reload attempt before it returns,
\* with and without the timer, so last_load is set in every state in which a
\* read can run and the staleness check never meets a missing timestamp.
C19_LoadedOnce ==
    /\ [](pc # "new" => last_load # NoTime)
    /\ [](frame.op = "init" => frame.reloads = 1)
    /\ [](ret.f.op = "init" => ret.f.reloads = 1)
    /\ [][pc = "new" => (AttemptStarts /\ last_load' = now)]_vars

C19_Witness ==
    /\ use_timer
    /\ pc = "idle"
    /\ ret.f.op = "init"
    /\ ret.f.reloads = 1
    /\ last_load = now
    /\ last_load # NoTime
    /\ log = "warning"

====
